---- MODULE Spec2Model ----
(***************************************************************************)
(* Model of src/server/src/app/api/openings/route.ts: the GET handler of   *)
(* the openings route (token request, paginated listing requests behind    *)
(* unstable_cache, try/catch) and the pure transform restructureOpenings.  *)
(*                                                                         *)
(* Two specifications share the module:                                    *)
(*   Spec   the GET handler against an upstream that holds a fixed list of *)
(*          requisitions and may fail any request;                         *)
(*   SpecR  restructureOpenings invoked twice on one fixed input sequence, *)
(*          the wall clock advancing in between.                           *)
(***************************************************************************)
EXTENDS Integers, Sequences, FiniteSets, TLC

VARIABLES
  \* ---- the upstream and the GET handler (Spec) ----
  db,               \* the upstream's matching requisitions, in upstream order
  pc,               \* position of the handler: idle, token, page, restructure, responded
  token,            \* const token of the cached function (line 33)
  skip,             \* let skip (line 36)
  totalNumber,      \* let totalNumber (line 37)
  allRequisitions,  \* let allRequisitions (line 35)
  requisitions,     \* const requisitions of the handler (line 76)
  requests,         \* history: requests issued and responses received by the current
                    \* invocation, in the order they happened
  pages,            \* history: the jobRequisitions arrays of the answered listing requests
  failure,          \* history: outcome of the first failed request of the invocation
  response,         \* the NextResponse of the current invocation
  cache,            \* the unstable_cache entry of key "job-requisitions"
  served,           \* number of GET invocations started
  \* ---- restructureOpenings on its own (SpecR) ----
  input,            \* the Requisition handed to restructureOpenings
  clock,            \* the wall clock that new Date() reads
  calls,            \* number of invocations of restructureOpenings made
  first,            \* result and currentDate of the first invocation
  second            \* result and currentDate of the second invocation

getVars == <<db, pc, token, skip, totalNumber, allRequisitions, requisitions, requests,
             pages, failure, response, cache, served>>
pureVars == <<input, clock, calls, first, second>>
vars == <<getVars, pureVars>>

(***************************************************************************)
(* Bounds of the model.                                                    *)
(***************************************************************************)
MaxLen == 3          \* longest input sequence of SpecR
MaxClock == 5        \* the wall clock ranges over 1..MaxClock
MaxTotal == 41       \* largest number of requisitions the upstream holds
MaxInvocations == 2  \* GET invocations per behaviour

(***************************************************************************)
(* JavaScript values.                                                      *)
(***************************************************************************)
Undefined == "<undefined>"     \* a missing string property
NaN == -1                      \* the time value of an Invalid Date

\* x ?? d  (lines 118, 123, 129, 132)
Coalesce(x, d) == IF x = Undefined THEN d ELSE x

\* ToBoolean of a string-or-undefined value (line 135: expireDate && ...)
Truthy(s) == s # Undefined /\ s # ""

\* new Date(s).getTime()  (line 135); the clock counts the same units.
DateValue(s) ==
  CASE s = "2024-01-02" -> 2
    [] s = "2024-01-04" -> 4
    [] OTHER -> NaN

\* a < b on two Dates: false as soon as one of them is Invalid (line 135)
DateLess(a, b) == a # NaN /\ b # NaN /\ a < b

\* The array index a property key denotes, or -1: a key that is the canonical
\* decimal form of an integer is an integer-indexed property of an object.
ArrayIndex(k) ==
  CASE k = "10" -> 10
    [] k = "2" -> 2
    [] OTHER -> -1

\* Properties every object literal inherits from Object.prototype.
ObjectPrototypeKeys == {"constructor", "toString", "valueOf", "hasOwnProperty", "__proto__"}

(***************************************************************************)
(* Requisitions as the upstream sends them.  An optional object is a       *)
(* sequence of at most one element; an optional string is Undefined.       *)
(***************************************************************************)
OrgUnit(shortName) == [nameCode |-> <<[shortName |-> shortName]>>]
OrgUnitNoNameCode == [nameCode |-> <<>>]
Posting(codeValue, expireDate) ==
  [nameCode |-> [codeValue |-> codeValue], expireDate |-> expireDate]
Location(cityName, subdivision, countryCode) ==
  [address |-> [cityName |-> cityName,
                countrySubdivisionLevel1 |-> subdivision,
                countryCode |-> countryCode]]
Link(title, href) == [title |-> title, href |-> href]
Req(ou, pi, rl, links, wt) ==
  [organizationalUnits |-> ou, postingInstructions |-> pi,
   requisitionLocations |-> rl, links |-> links, workerTypeCode |-> wt]

CareerCenter == "HL External Career Center"
NY == Location("New York", <<[codeValue |-> "NY"]>>, "US")
London == Location("London", <<>>, "GB")
FullTime == <<[shortName |-> "Full Time"]>>

KindNames ==
  {"plain", "expiring2", "expiring4", "noShortName", "all", "numeric10", "numeric2",
   "inherited", "badDate", "noOrgUnits", "noNameCode", "noLocations"}

\* The requisition of each kind; title is its posting's nameCode.codeValue.
ReqOfKind(kind, title) ==
  CASE kind = "plain" ->
         Req(<<OrgUnit("Sales")>>, <<Posting(title, Undefined)>>, <<NY>>,
             <<Link("Self", "/self"), Link(CareerCenter, "/apply/a"),
               Link(CareerCenter, "/apply/b")>>, FullTime)
    [] kind = "expiring2" ->
         Req(<<OrgUnit("Sales")>>, <<Posting(title, "2024-01-02")>>, <<London>>,
             <<Link(CareerCenter, "/apply/b"), Link("Self", "/self")>>, <<>>)
    [] kind = "expiring4" ->
         Req(<<OrgUnit("Tech"), OrgUnit("All")>>, <<Posting(title, "2024-01-04")>>,
             <<NY, London>>, <<>>, FullTime)
    [] kind = "noShortName" ->
         Req(<<OrgUnit(Undefined)>>, <<Posting(title, "2024-01-04")>>, <<NY>>,
             <<Link("Self", "/self")>>, <<[shortName |-> Undefined]>>)
    [] kind = "all" ->
         Req(<<OrgUnit("All")>>, <<Posting(title, Undefined)>>, <<NY>>,
             <<Link(CareerCenter, "/apply/a")>>, FullTime)
    [] kind = "numeric10" ->
         Req(<<OrgUnit("10")>>, <<Posting(title, Undefined)>>, <<NY>>,
             <<Link(CareerCenter, "/apply/a")>>, FullTime)
    [] kind = "numeric2" ->
         Req(<<OrgUnit("2")>>, <<Posting(title, "2024-01-04")>>, <<London>>,
             <<Link(CareerCenter, "/apply/a")>>, FullTime)
    [] kind = "inherited" ->
         Req(<<OrgUnit("constructor")>>, <<Posting(title, "2024-01-02")>>, <<NY>>,
             <<Link(CareerCenter, "/apply/a")>>, FullTime)
    [] kind = "badDate" ->
         Req(<<OrgUnit("Tech")>>, <<Posting(title, "soon")>>, <<NY>>,
             <<Link(CareerCenter, "/apply/a")>>, FullTime)
    [] kind = "noOrgUnits" ->
         Req(<<>>, <<Posting(title, Undefined)>>, <<NY>>,
             <<Link(CareerCenter, "/apply/a")>>, FullTime)
    [] kind = "noNameCode" ->
         Req(<<OrgUnitNoNameCode>>, <<Posting(title, Undefined)>>, <<NY>>,
             <<Link(CareerCenter, "/apply/a")>>, FullTime)
    [] kind = "noLocations" ->
         Req(<<OrgUnit("Sales")>>, <<Posting(title, "2024-01-02")>>, <<>>,
             <<Link(CareerCenter, "/apply/a")>>, FullTime)

\* The requisitions built from a sequence of kinds; record i is titled by i.
ReqsOfKinds(kinds) == [i \in 1..Len(kinds) |-> ReqOfKind(kinds[i], ToString(i))]

(***************************************************************************)
(* jobMap: an object literal.  Its own properties are kept in creation     *)
(* order, each [key, value] with value the array of Openings.              *)
(***************************************************************************)
HasOwn(jobMap, k) == \E i \in 1..Len(jobMap) : jobMap[i].key = k
OwnIndex(jobMap, k) == CHOOSE i \in 1..Len(jobMap) : jobMap[i].key = k

\* !jobMap[department] (line 139): an own array and an inherited member are truthy.
IsFalsyProperty(jobMap, k) == ~HasOwn(jobMap, k) /\ k \notin ObjectPrototypeKeys

\* jobMap[department] = []  (line 140)
CreateProperty(jobMap, k) == Append(jobMap, [key |-> k, value |-> <<>>])

\* jobMap[department].push(opening)  (line 143), for an own array
PushOwn(jobMap, k, opening) ==
  [jobMap EXCEPT ![OwnIndex(jobMap, k)].value = Append(@, opening)]

\* The own keys that are array indices, ascending.
RECURSIVE SortedIndexKeys(_)
SortedIndexKeys(ks) ==
  IF ks = {} THEN <<>>
  ELSE LET m == CHOOSE k \in ks : \A o \in ks : ArrayIndex(k) <= ArrayIndex(o)
       IN <<m>> \o SortedIndexKeys(ks \ {m})

\* The other own keys, in creation order.
RECURSIVE StringKeysFrom(_, _)
StringKeysFrom(jobMap, i) ==
  IF i > Len(jobMap) THEN <<>>
  ELSE (IF ArrayIndex(jobMap[i].key) < 0 THEN <<jobMap[i].key>> ELSE <<>>)
       \o StringKeysFrom(jobMap, i + 1)

\* The order in which the keys of the returned object enumerate (Object.keys,
\* for-in, JSON.stringify): array indices ascending, then creation order.
OwnPropertyKeys(jobMap) ==
  SortedIndexKeys({jobMap[i].key : i \in {j \in 1..Len(jobMap) : ArrayIndex(jobMap[j].key) >= 0}})
  \o StringKeysFrom(jobMap, 1)

\* The returned object as its consumers see it: [key, value] in enumeration order.
Entries(jobMap) ==
  LET ks == OwnPropertyKeys(jobMap)
  IN [i \in 1..Len(ks) |-> jobMap[OwnIndex(jobMap, ks[i])]]

(***************************************************************************)
(* restructureOpenings (lines 112-154).                                    *)
(***************************************************************************)
Returned(jobMap) == [threw |-> FALSE, message |-> "", jobMap |-> jobMap]
Thrown(message) == [threw |-> TRUE, message |-> message, jobMap |-> <<>>]

\* lines 117-118, once organizationalUnits[0].nameCode is known to exist
Department(jobRequisition) ==
  Coalesce(jobRequisition.organizationalUnits[1].nameCode[1].shortName, "Others")

\* links.find(link => link.title === "HL External Career Center")  (lines 121-122):
\* the index of the first match, 0 when there is none
FindLinkLast(links) ==
  LET hits == {i \in 1..Len(links) : links[i].title = CareerCenter}
  IN IF hits = {} THEN 0 ELSE CHOOSE i \in hits : \A j \in hits : j <= i
FindLink(links) ==
  LET hits == {i \in 1..Len(links) : links[i].title = CareerCenter}
  IN IF hits = {} THEN 0 ELSE CHOOSE i \in hits : \A j \in hits : i <= j

\* lines 120-123
OpeningLink(jobRequisition) ==
  LET i == FindLink(jobRequisition.links)
  IN IF i = 0 THEN "" ELSE Coalesce(jobRequisition.links[i].href, "")

\* line 135: expireDate && new Date(expireDate) < currentDate
IsExpiredFlipped(expireDate, currentDate) ==
  Truthy(expireDate) /\ DateLess(currentDate, DateValue(expireDate))
IsExpired(expireDate, currentDate) ==
  Truthy(expireDate) /\ DateLess(DateValue(expireDate), currentDate)

\* lines 124-132 and 143-151, once the three first elements are known to exist
MakeOpening(jobRequisition) ==
  LET address == jobRequisition.requisitionLocations[1].address
      sub == address.countrySubdivisionLevel1
      wt == jobRequisition.workerTypeCode
  IN [jobTitle |-> jobRequisition.postingInstructions[1].nameCode.codeValue,
      openingLink |-> OpeningLink(jobRequisition),
      cityName |-> address.cityName,
      codeValue |-> IF Len(sub) = 0 THEN "" ELSE Coalesce(sub[1].codeValue, ""),
      countryCode |-> address.countryCode,
      workerTypeCode |-> IF Len(wt) = 0 THEN "" ELSE Coalesce(wt[1].shortName, ""),
      expireDate |-> jobRequisition.postingInstructions[1].expireDate]

\* lines 139-151: create the department's array on first use, then push
AddOpening(jobMap, department, opening) ==
  LET created == IF IsFalsyProperty(jobMap, department)
                 THEN CreateProperty(jobMap, department) ELSE jobMap
  IN IF HasOwn(created, department)
     THEN Returned(PushOwn(created, department, opening))
     ELSE Thrown("jobMap[department].push is not a function")

\* The callback of forEach (lines 116-152), in the order the code evaluates.
Callback(jobMap, jobRequisition, currentDate) ==
  IF Len(jobRequisition.organizationalUnits) = 0
  THEN Thrown("Cannot read properties of undefined (reading 'nameCode')")
  ELSE IF Len(jobRequisition.organizationalUnits[1].nameCode) = 0
  THEN Thrown("Cannot read properties of undefined (reading 'shortName')")
  ELSE IF Department(jobRequisition) = "All"
  THEN Returned(jobMap)
  ELSE IF Len(jobRequisition.postingInstructions) = 0
  THEN Thrown("Cannot read properties of undefined (reading 'nameCode')")
  ELSE IF Len(jobRequisition.requisitionLocations) = 0
  THEN Thrown("Cannot read properties of undefined (reading 'address')")
  ELSE IF IsExpired(jobRequisition.postingInstructions[1].expireDate, currentDate)
  THEN Returned(jobMap)
  ELSE AddOpening(jobMap, Department(jobRequisition), MakeOpening(jobRequisition))

\* openings.jobRequisitions.forEach(...) from element i on; a throw ends it.
RECURSIVE ForEach(_, _, _, _)
ForEach(jobRequisitions, i, jobMap, currentDate) ==
  IF i > Len(jobRequisitions) THEN Returned(jobMap)
  ELSE LET r == Callback(jobMap, jobRequisitions[i], currentDate)
       IN IF r.threw THEN r
          ELSE ForEach(jobRequisitions, i + 1, r.jobMap, currentDate)

\* restructureOpenings(openings) with new Date() = currentDate (lines 112-154)
restructureOpenings(openings, currentDate) ==
  ForEach(openings.jobRequisitions, 1, <<>>, currentDate)

(***************************************************************************)
(* SpecR: restructureOpenings applied twice to one input.                  *)
(***************************************************************************)
NotCalled == [currentDate |-> 0, result |-> Returned(<<>>)]

\* The sequences of kinds of length at most MaxLen
KindSeqs == UNION {[1..n -> KindNames] : n \in 0..MaxLen}

Requisition(jobRequisitions) ==
  [jobRequisitions |-> jobRequisitions, meta |-> [totalNumber |-> Len(jobRequisitions)]]

NoFailure == [at |-> "none", hasResponse |-> FALSE, status |-> 0]
NoResponse == [status |-> 0, error |-> "", body |-> <<>>]

\* The handler before its first invocation.
IdleGet ==
  /\ db = <<>>
  /\ pc = "idle"
  /\ token = Undefined
  /\ skip = 0
  /\ totalNumber = 0
  /\ allRequisitions = <<>>
  /\ requisitions = Requisition(<<>>)
  /\ requests = <<>>
  /\ pages = <<>>
  /\ failure = NoFailure
  /\ response = NoResponse
  /\ cache = [filled |-> FALSE, data |-> Requisition(<<>>)]
  /\ served = 0

InitR ==
  /\ IdleGet
  /\ input \in {Requisition(ReqsOfKinds(ks)) : ks \in KindSeqs}
  /\ clock \in 1..MaxClock
  /\ calls = 0
  /\ first = NotCalled
  /\ second = NotCalled

\* The wall clock advances.
Tick ==
  /\ clock < MaxClock
  /\ clock' = clock + 1
  /\ UNCHANGED <<getVars, input, calls, first, second>>

\* First invocation: const currentDate = new Date() reads the clock.
InvokeFirst ==
  /\ calls = 0
  /\ calls' = 1
  /\ first' = [currentDate |-> clock, result |-> restructureOpenings(input, clock)]
  /\ UNCHANGED <<getVars, input, clock, second>>

\* Second invocation on the same input.
InvokeSecond ==
  /\ calls = 1
  /\ calls' = 2
  /\ second' = [currentDate |-> clock, result |-> restructureOpenings(input, clock)]
  /\ UNCHANGED <<getVars, input, clock, first>>

NextR == Tick \/ InvokeFirst \/ InvokeSecond

SpecR == InitR /\ [][NextR]_vars

(***************************************************************************)
(* Vocabulary of the claims about restructureOpenings.  Record i of the    *)
(* input is recognised in the output by its job title, ToString(i).        *)
(***************************************************************************)
Reqs == input.jobRequisitions

\* The three lists hold a first element and the first unit has a nameCode.
WellFormed(r) ==
  /\ Len(r.organizationalUnits) > 0
  /\ Len(r.organizationalUnits[1].nameCode) > 0
  /\ Len(r.postingInstructions) > 0
  /\ Len(r.requisitionLocations) > 0

\* organizationalUnits[0].nameCode.shortName is missing, in any way
ShortNameMissing(r) ==
  \/ Len(r.organizationalUnits) = 0
  \/ Len(r.organizationalUnits[1].nameCode) = 0
  \/ r.organizationalUnits[1].nameCode[1].shortName = Undefined

\* The department the specification assigns: the short name, "Others" if absent.
ClaimedDepartment(r) ==
  IF ShortNameMissing(r) THEN "Others"
  ELSE r.organizationalUnits[1].nameCode[1].shortName

\* The first posting instruction's expire date is strictly earlier than now.
ClaimedExpired(r, now) ==
  /\ Len(r.postingInstructions) > 0
  /\ DateValue(r.postingInstructions[1].expireDate) # NaN
  /\ DateValue(r.postingInstructions[1].expireDate) < now

\* The record passes both filters.
ClaimedKept(r, now) == ClaimedDepartment(r) # "All" /\ ~ClaimedExpired(r, now)

\* Where the Opening titled t sits in the returned object: <<key, position>>
Places(jobMap, t) ==
  UNION {{<<jobMap[e].key, p>> : p \in {q \in 1..Len(jobMap[e].value) :
                                          jobMap[e].value[q].jobTitle = t}}
         : e \in 1..Len(jobMap)}

\* The departments in the order in which each first receives a kept record
RECURSIVE FirstEncounter(_, _, _)
FirstEncounter(now, i, seen) ==
  IF i > Len(Reqs) THEN <<>>
  ELSE IF ClaimedKept(Reqs[i], now) /\ ClaimedDepartment(Reqs[i]) \notin seen
  THEN <<ClaimedDepartment(Reqs[i])>>
       \o FirstEncounter(now, i + 1, seen \cup {ClaimedDepartment(Reqs[i])})
  ELSE FirstEncounter(now, i + 1, seen)

\* The titles of the kept records of department d, in input order
RECURSIVE TitlesOf(_, _, _)
TitlesOf(now, d, i) ==
  IF i > Len(Reqs) THEN <<>>
  ELSE (IF ClaimedKept(Reqs[i], now) /\ ClaimedDepartment(Reqs[i]) = d
        THEN <<ToString(i)>> ELSE <<>>) \o TitlesOf(now, d, i + 1)

JobTitles(openings) == [p \in 1..Len(openings) |-> openings[p].jobTitle]

\* C4 (as claimed): on an input of well-formed requisitions, record i
\* contributes exactly one Opening when it passes both filters (department not
\* "All", expire date absent or not strictly before now) and none otherwise,
\* and no bucket is keyed "All".
C4_KeptIffPassesBothFilters ==
  (calls >= 1 /\ \A i \in 1..Len(Reqs) : WellFormed(Reqs[i])) =>
    /\ \A i \in 1..Len(Reqs) :
         Cardinality(Places(first.result.jobMap, ToString(i))) =
           (IF ClaimedKept(Reqs[i], first.currentDate) THEN 1 ELSE 0)
    /\ ~HasOwn(first.result.jobMap, "All")

\* C5 (as claimed): whenever restructureOpenings returns, the department keys
\* of the returned mapping enumerate in the order in which each department
\* first receives a retained record, and each department lists its Openings in
\* input order.
C5_FirstEncounterOrder ==
  (calls >= 1 /\ ~first.result.threw) =>
    LET ents == Entries(first.result.jobMap)
    IN /\ [e \in 1..Len(ents) |-> ents[e].key] = FirstEncounter(first.currentDate, 1, {})
       /\ \A e \in 1..Len(ents) :
            JobTitles(ents[e].value) = TitlesOf(first.currentDate, ents[e].key, 1)

\* C6 (as claimed): a non-expired requisition whose
\* organizationalUnits[0].nameCode.shortName is missing in any way is placed in
\* the bucket keyed "Others" and in no other bucket.
C6_MissingShortNameGoesToOthers ==
  calls >= 1 =>
    \A i \in 1..Len(Reqs) :
      (ShortNameMissing(Reqs[i]) /\ ~ClaimedExpired(Reqs[i], first.currentDate)) =>
        \E p \in 1..Len(Reqs) :
          Places(first.result.jobMap, ToString(i)) = {<<"Others", p>>}

\* C7: the openingLink of every retained requisition is the href of the first
\* link, in input order, titled "HL External Career Center", and the empty
\* string when no link has that title.
C7_FirstCareerCenterLink ==
  calls >= 1 =>
    \A e \in 1..Len(first.result.jobMap) :
      \A p \in 1..Len(first.result.jobMap[e].value) :
        LET o == first.result.jobMap[e].value[p]
            links == CHOOSE l \in {Reqs[i].links : i \in {j \in 1..Len(Reqs) :
                                      ToString(j) = o.jobTitle}} : TRUE
        IN \/ /\ \A j \in 1..Len(links) : links[j].title # CareerCenter
              /\ o.openingLink = ""
           \/ \E j \in 1..Len(links) :
                /\ links[j].title = CareerCenter
                /\ \A k \in 1..(j - 1) : links[k].title # CareerCenter
                /\ o.openingLink = links[j].href

\* Witness of C7: a requisition with two links of that title, after another
\* link, has been retained, and so has one with no such link.
C7_Witness ==
  /\ calls >= 1
  /\ \E e \in 1..Len(first.result.jobMap) :
       \E p \in 1..Len(first.result.jobMap[e].value) :
         first.result.jobMap[e].value[p].openingLink = "/apply/a"
         /\ \E i \in 1..Len(Reqs) :
              /\ ToString(i) = first.result.jobMap[e].value[p].jobTitle
              /\ Len(Reqs[i].links) = 3
  /\ \E e \in 1..Len(first.result.jobMap) :
       \E p \in 1..Len(first.result.jobMap[e].value) :
         first.result.jobMap[e].value[p].openingLink = ""

\* C8 (as claimed): two successive invocations on the same input, each reading
\* the current date, return identical output.
C8_TwoInvocationsIdentical ==
  calls = 2 => first.result = second.result

\* No record's expire date is passed between the two reads of the clock.
NoExpiryBetween ==
  \A i \in 1..Len(Reqs) :
    ClaimedExpired(Reqs[i], second.currentDate) => ClaimedExpired(Reqs[i], first.currentDate)

\* C8 (amended): the two invocations return identical output whenever no
\* requisition's expire date lies between the two current dates read, in
\* particular when both read the same date.
C8_IdenticalUnlessExpiredBetween ==
  (calls = 2 /\ NoExpiryBetween) => first.result = second.result

\* Witness of C8: the two invocations read different dates, none expired in
\* between, one requisition had expired before both, and Openings were returned.
C8_Witness ==
  /\ calls = 2
  /\ first.currentDate < second.currentDate
  /\ NoExpiryBetween
  /\ \E i \in 1..Len(Reqs) : ClaimedExpired(Reqs[i], first.currentDate)
  /\ ~first.result.threw
  /\ first.result.jobMap # <<>>

(***************************************************************************)
(* Spec: the GET handler (lines 11-86) and getAccessToken (lines 88-110)   *)
(* against the upstream.                                                   *)
(***************************************************************************)
Top == 20           \* endpoint.searchParams.set("$top", "20")
SkipStep == 20      \* skip += 20
OkStatus == 200     \* NextResponse.json(openings, { status: 200 })
DefaultStatus == 500  \* axiosError.response?.status || 500

Tokens == {"tokenA", "tokenB"}

\* What a failed axios call rejects with: an HTTP error status, or no response.
FailureOutcomes ==
  {[hasResponse |-> TRUE, status |-> st] : st \in {401, 503}}
  \cup {[hasResponse |-> FALSE, status |-> 0]}

\* The kinds of requisition the upstream of Spec holds
UpstreamKinds == {"plain", "expiring2", "all", "noLocations"}
KindPatterns == UNION {[1..n -> UpstreamKinds] : n \in 1..2}

\* The upstream's lists: T requisitions, their kinds repeating a pattern.
UpstreamLists ==
  {ReqsOfKinds([i \in 1..T |-> pat[((i - 1) % Len(pat)) + 1]]) :
     T \in 0..MaxTotal, pat \in KindPatterns}

\* The upstream's answer to GET ...?$filter=...&$top=20&$skip=<skp>  (lines 16-20, 41-51)
UpstreamPage(skp) ==
  [jobRequisitions |->
     SubSeq(db, skp + 1, IF skp + Top < Len(db) THEN skp + Top ELSE Len(db)),
   meta |-> [totalNumber |-> Len(db)]]

\* Entries of the traffic history
TokenRequest ==
  [dir |-> "request", kind |-> "token", skip |-> 0, status |-> 0, credentials |-> "Basic"]
ListingRequest(skp, tok) ==
  [dir |-> "request", kind |-> "listing", skip |-> skp, status |-> 0, credentials |-> tok]
\* A 2xx answer; the token endpoint's carries the access_token.
OkResponse(kind, skp, tok) ==
  [dir |-> "response", kind |-> kind, skip |-> skp, status |-> OkStatus, credentials |-> tok]
\* A rejected request: an error status, or status 0 when no response came.
FailedResponse(kind, skp, outcome) ==
  [dir |-> "response", kind |-> kind, skip |-> skp, status |-> outcome.status,
   credentials |-> ""]

\* Errors as the catch block sees them (lines 79-84)
AxiosError(outcome) ==
  [message |-> IF outcome.hasResponse
               THEN "Request failed with status code " \o ToString(outcome.status)
               ELSE "Network Error",
   hasResponse |-> outcome.hasResponse, status |-> outcome.status]
PlainError(message) == [message |-> message, hasResponse |-> FALSE, status |-> 0]

\* axiosError.response?.status || 500  (line 83)
ErrorStatusAlwaysDefault(error) == DefaultStatus
ErrorStatus(error) ==
  IF error.hasResponse /\ error.status # 0 THEN error.status ELSE DefaultStatus

\* The catch block of GET (lines 79-85)
CatchResponse(error) ==
  [status |-> ErrorStatus(error), error |-> error.message, body |-> <<>>]

\* while (skip < totalNumber)  (line 61)
ContinueLoopInclusive(skp, total) == skp <= total
ContinueLoop(skp, total) == skp < total

Init ==
  /\ db \in UpstreamLists
  /\ pc = "idle"
  /\ token = Undefined
  /\ skip = 0
  /\ totalNumber = 0
  /\ allRequisitions = <<>>
  /\ requisitions = Requisition(<<>>)
  /\ requests = <<>>
  /\ pages = <<>>
  /\ failure = NoFailure
  /\ response = NoResponse
  /\ cache = [filled |-> FALSE, data |-> Requisition(<<>>)]
  /\ served = 0
  /\ input = Requisition(<<>>)
  /\ clock = 1
  /\ calls = 0
  /\ first = NotCalled
  /\ second = NotCalled

\* A GET arrives and unstable_cache runs the cached function (lines 11-33): the
\* token request is issued (lines 94-104).
GetMiss ==
  /\ pc \in {"idle", "responded"}
  /\ served < MaxInvocations
  /\ served' = served + 1
  /\ pc' = "token"
  /\ token' = Undefined
  /\ skip' = 0
  /\ totalNumber' = 0
  /\ allRequisitions' = <<>>
  /\ requisitions' = Requisition(<<>>)
  /\ requests' = <<TokenRequest>>
  /\ pages' = <<>>
  /\ failure' = NoFailure
  /\ response' = NoResponse
  /\ UNCHANGED <<db, cache, pureVars>>

\* A GET arrives and unstable_cache serves its entry (lines 12, 69-72, 76).
GetHit ==
  /\ pc \in {"idle", "responded"}
  /\ served < MaxInvocations
  /\ cache.filled
  /\ served' = served + 1
  /\ pc' = "restructure"
  /\ token' = Undefined
  /\ skip' = 0
  /\ totalNumber' = 0
  /\ allRequisitions' = <<>>
  /\ requisitions' = cache.data
  /\ requests' = <<>>
  /\ pages' = <<>>
  /\ failure' = NoFailure
  /\ response' = NoResponse
  /\ UNCHANGED <<db, cache, pureVars>>

\* The token endpoint answers 2xx (line 106); lines 35-49 issue the first
\* listing request.
TokenOk ==
  /\ pc = "token"
  /\ \E tok \in Tokens :
       /\ token' = tok
       /\ requests' = requests \o <<OkResponse("token", 0, tok), ListingRequest(0, tok)>>
  /\ pc' = "page"
  /\ skip' = 0
  /\ totalNumber' = 0
  /\ allRequisitions' = <<>>
  /\ UNCHANGED <<db, requisitions, pages, failure, response, cache, served, pureVars>>

\* The token request fails: getAccessToken throws its fixed Error (lines
\* 107-109), which the catch block of GET answers (lines 79-85).
TokenFail ==
  /\ pc = "token"
  /\ \E outcome \in FailureOutcomes :
       /\ requests' = Append(requests, FailedResponse("token", 0, outcome))
       /\ failure' = [at |-> "token", hasResponse |-> outcome.hasResponse,
                      status |-> outcome.status]
  /\ response' = CatchResponse(PlainError("Failed to retrieve access token"))
  /\ pc' = "responded"
  /\ UNCHANGED <<db, token, skip, totalNumber, allRequisitions, requisitions, pages,
                 cache, served, pureVars>>

\* A listing request is answered 2xx (lines 51-61): accumulate, then either
\* issue the next request or return and fill the cache (lines 64-67).
PageOk ==
  /\ pc = "page"
  /\ LET batchData == UpstreamPage(skip)
         all == allRequisitions \o batchData.jobRequisitions
         total == batchData.meta.totalNumber
         skp == skip + SkipStep
     IN /\ allRequisitions' = all
        /\ totalNumber' = total
        /\ skip' = skp
        /\ pages' = Append(pages, batchData.jobRequisitions)
        /\ IF ContinueLoop(skp, total)
           THEN /\ requests' = requests \o <<OkResponse("listing", skip, ""),
                                              ListingRequest(skp, token)>>
                /\ pc' = "page"
                /\ UNCHANGED <<requisitions, cache>>
           ELSE /\ requests' = Append(requests, OkResponse("listing", skip, ""))
                /\ pc' = "restructure"
                /\ requisitions' = [jobRequisitions |-> all, meta |-> [totalNumber |-> total]]
                /\ cache' = [filled |-> TRUE,
                             data |-> [jobRequisitions |-> all,
                                       meta |-> [totalNumber |-> total]]]
  /\ UNCHANGED <<db, token, failure, response, served, pureVars>>

\* A listing request fails: axios rejects (line 44), the cached function
\* rejects, the catch block of GET answers (lines 79-85).
PageFailRetry ==
  /\ pc = "page"
  /\ \E outcome \in FailureOutcomes :
       /\ requests' = requests \o <<FailedResponse("listing", skip, outcome),
                                    ListingRequest(skip, token)>>
       /\ failure' = [at |-> "listing", hasResponse |-> outcome.hasResponse,
                      status |-> outcome.status]
  /\ UNCHANGED <<db, pc, token, skip, totalNumber, allRequisitions, requisitions, pages,
                 response, cache, served, pureVars>>
PageFail ==
  /\ pc = "page"
  /\ \E outcome \in FailureOutcomes :
       /\ requests' = Append(requests, FailedResponse("listing", skip, outcome))
       /\ failure' = [at |-> "listing", hasResponse |-> outcome.hasResponse,
                      status |-> outcome.status]
       /\ response' = CatchResponse(AxiosError(outcome))
  /\ pc' = "responded"
  /\ UNCHANGED <<db, token, skip, totalNumber, allRequisitions, requisitions, pages,
                 cache, served, pureVars>>

\* restructureOpenings(requisitions) and the response (lines 77-78), or the
\* catch block when it throws (lines 79-85).
Restructure ==
  /\ pc = "restructure"
  /\ \E now \in 1..MaxClock :
       /\ clock' = now
       /\ LET r == restructureOpenings(requisitions, now)
          IN response' = IF r.threw THEN CatchResponse(PlainError(r.message))
                         ELSE [status |-> OkStatus, error |-> "", body |-> Entries(r.jobMap)]
  /\ pc' = "responded"
  /\ UNCHANGED <<db, token, skip, totalNumber, allRequisitions, requisitions, requests,
                 pages, failure, cache, served, input, calls, first, second>>

Next == GetMiss \/ GetHit \/ TokenOk \/ TokenFail \/ PageOk \/ PageFail \/ Restructure

Spec == Init /\ [][Next]_vars

(***************************************************************************)
(* Claims about the GET handler.                                           *)
(***************************************************************************)
\* The listing requests issued so far by the invocation, in issue order
ListingRequests ==
  SelectSeq(requests, LAMBDA m : m.dir = "request" /\ m.kind = "listing")

RECURSIVE Concat(_)
Concat(seqs) == IF seqs = <<>> THEN <<>> ELSE Head(seqs) \o Concat(Tail(seqs))

\* The cached function has returned in this invocation.
FetchReturned == requests # <<>> /\ failure.at = "none" /\ pc \in {"restructure", "responded"}

\* C1: with T the total the upstream reports, the listing requests carry $skip
\* = 0, 20, 40, ... in that order; when the fetch returns there have been
\* ceil(T/20) of them (1 when T = 0) and the accumulated jobRequisitions is the
\* concatenation of the pages in request order, of length T.
C1_PaginationComplete ==
  LET T == Len(db)
  IN /\ \A k \in 1..Len(ListingRequests) : ListingRequests[k].skip = 20 * (k - 1)
     /\ FetchReturned =>
          /\ Len(ListingRequests) = (IF T = 0 THEN 1 ELSE (T + 19) \div 20)
          /\ Len(pages) = Len(ListingRequests)
          /\ requisitions.jobRequisitions = Concat(pages)
          /\ Len(requisitions.jobRequisitions) = T
          /\ requisitions.meta.totalNumber = T

\* Witness of C1: the fetch returned 41 records after three listing requests.
C1_Witness ==
  /\ FetchReturned
  /\ pc = "restructure"
  /\ Len(db) = 41
  /\ Len(ListingRequests) = 3
  /\ Len(requisitions.jobRequisitions) = 41

\* C2 (as claimed): when the token endpoint answers 401, the handler responds
\* with status 401 and the fixed message.
C2_TokenFailureStatus ==
  (pc = "responded" /\ failure.at = "token" /\ failure.hasResponse /\ failure.status = 401) =>
    /\ response.status = 401
    /\ response.error = "Failed to retrieve access token"
    /\ response.body = <<>>

\* C3: when a listing request fails, however many pages were fetched before,
\* the response holds no openings, is not a 200, and is a JSON error whose
\* status is the failed request's upstream status, or 500 when it has none.
C3_AllOrNothing ==
  (pc = "responded" /\ failure.at = "listing") =>
    /\ response.body = <<>>
    /\ response.error # ""
    /\ response.status # 200
    /\ response.status = (IF failure.hasResponse THEN failure.status ELSE 500)

\* Witness of C3: the third listing request failed with an upstream status
\* after two pages had been fetched.
C3_Witness ==
  /\ pc = "responded"
  /\ failure.at = "listing"
  /\ failure.hasResponse
  /\ failure.status = 503
  /\ Len(pages) = 2
  /\ response.status = 503

\* The requisition lacks a first organizational unit, posting or location.
Malformed(r) ==
  \/ Len(r.organizationalUnits) = 0
  \/ Len(r.postingInstructions) = 0
  \/ Len(r.requisitionLocations) = 0

\* C9 (as claimed): when the fetched sequence holds a requisition with an empty
\* organizationalUnits, postingInstructions or requisitionLocations list, the
\* handler still responds 200 with the Opening of every well-formed retained
\* requisition.
C9_MalformedNeverCrashes ==
  LET fetched == requisitions.jobRequisitions
  IN (/\ pc = "responded"
      /\ failure.at = "none"
      /\ \E i \in 1..Len(fetched) : Malformed(fetched[i])) =>
       /\ response.status = 200
       /\ \A i \in 1..Len(fetched) :
            (WellFormed(fetched[i]) /\ ClaimedKept(fetched[i], clock)) =>
              Places(response.body, ToString(i)) # {}

\* C10: within one uncached invocation exactly one token request is issued,
\* first; every listing request follows a successful response to the request
\* before it and carries the token that the token response returned; no two
\* requests are outstanding together; and a failed response is the last thing
\* in the traffic, so nothing is retried.
C10_RequestOrdering ==
  LET n == Len(requests)
  IN /\ pc \in {"token", "page"} => n > 0
     /\ n > 0 => requests[1] = TokenRequest
     /\ \A i \in 2..n : requests[i].kind = "token" => (i = 2 /\ requests[i].dir = "response")
     /\ \A i \in 1..n :
          (requests[i].dir = "request" /\ requests[i].kind = "listing") =>
            /\ i >= 3
            /\ requests[i - 1].dir = "response"
            /\ requests[i - 1].status = 200
            /\ requests[2].status = 200
            /\ requests[i].credentials = requests[2].credentials
            /\ requests[i].credentials \in Tokens
     /\ \A i \in 1..(n - 1) :
          requests[i].dir = "request" =>
            (requests[i + 1].dir = "response" /\ requests[i + 1].kind = requests[i].kind)
     /\ \A i \in 1..n :
          (requests[i].dir = "response" /\ requests[i].status # 200) => i = n
     /\ failure.at # "none" => (n > 0 /\ requests[n].dir = "response" /\ requests[n].status # 200)

\* Witness of C10: the second invocation, uncached, with token B, failed on its
\* second listing request.
C10_Witness ==
  /\ served = 2
  /\ pc = "responded"
  /\ failure.at = "listing"
  /\ Len(requests) = 6
  /\ requests[2].credentials = "tokenB"
  /\ requests[5].credentials = "tokenB"

====
